---- MODULE Spec2Model ----
(***************************************************************************)
(* Model of the patient-flow board of src/app/kanban/page.tsx: the stage   *)
(* classifier and the grouping of the board (KanbanPage), the polling of   *)
(* /api/patients, the timeline reconstruction (generatePatientTimeline)    *)
(* and the time statistics (calculatePatientTimeStats).                    *)
(*                                                                         *)
(* Timestamps are ISO strings in the source; every use goes through        *)
(* new Date(s).getTime(), so a timestamp is modelled by its epoch          *)
(* milliseconds.  An optional timestamp that is absent (undefined, hence   *)
(* falsy) is the value Absent.  Titles, descriptions, icons and colours    *)
(* are presentation and are left out of the records.                       *)
(***************************************************************************)
EXTENDS Integers, Sequences, FiniteSets, TLC

VARIABLES
  patients,   \* KanbanPage state: the list shown (useState, line 68)
  grouped,    \* KanbanPage: the memoised patientsByStage of `patients`
  loading,    \* KanbanPage state: loading flag (line 70)
  inflight,   \* requests of loadPatients awaiting their response
  issued,     \* number of loadPatients calls made so far
  logged,     \* number of console.error calls made by loadPatients
  clock,      \* milliseconds since mount, advanced by the interval timer
  shown,      \* the request whose response set `patients` (0: none yet)
  lastResult, \* how the loadPatients call that settled last ended
  patient,    \* argument of the function under evaluation
  now,        \* the current time read by the function under evaluation
  stage,      \* result of getPatientStage
  timeInStage, \* result of getTimeInStage
  emitted,    \* generatePatientTimeline: the events array before line 603
  timeline,   \* generatePatientTimeline: the returned array
  stats,      \* result of calculatePatientTimeStats
  pc          \* "input" before the function ran, "done" after

pageVars == <<patients, grouped, loading, inflight, issued, logged, clock, shown, lastResult>>
fnVars == <<patient, now, stage, timeInStage, emitted, timeline, stats, pc>>
vars == <<patients, grouped, loading, inflight, issued, logged, clock, shown, lastResult,
          patient, now, stage, timeInStage, emitted, timeline, stats, pc>>

(***************************************************************************)
(* Bounds of the model.                                                    *)
(***************************************************************************)
MaxStudies == 2
MaxPatients == 2
MaxTick == 1
MaxRecorded == 2
MaxRequests == 3

(***************************************************************************)
(* Program constants and types.                                            *)
(***************************************************************************)
MsPerMinute == 60000
PollIntervalMs == 3000
Absent == -1

Present(t) == t # Absent

\* One and a half minutes: the grain of the timestamps of the inputs, so
\* that differences are not whole minutes and flooring shows.
Step == (3 * MsPerMinute) \div 2

KanbanStage ==
  {"admission", "waiting_doctor", "in_studies", "results_ready", "in_progress", "discharge"}

StudyStatus == {"Solicitado", "Pendiente Resultado", "Completado"}

PatientStatus == {"active", "discharged"}

\* Sequences over S of length at most n.
SeqUpTo(S, n) == UNION {[1..k -> S] : k \in 0..n}

RECURSIVE SumSeq(_)
SumSeq(s) == IF s = <<>> THEN 0 ELSE Head(s) + SumSeq(Tail(s))

(***************************************************************************)
(* Stage classifier.                                                       *)
(***************************************************************************)
\* getPatientStage without its last two returns: a patient whose studies are
\* all completed and reviewed falls off the end of the function.
getPatientStageNoTail(p) ==
  IF p.status = "discharged" THEN "discharge"
  ELSE
    LET hasStudies == Len(p.studies) > 0
        allStudiesCompleted ==
          hasStudies /\ \A i \in DOMAIN p.studies : p.studies[i].status = "Completado"
        hasStudiesInProgress ==
          hasStudies /\ \E i \in DOMAIN p.studies : p.studies[i].status = "Pendiente Resultado"
        hasStudiesPending ==
          hasStudies /\ \E i \in DOMAIN p.studies : p.studies[i].status = "Solicitado"
    IN IF ~Present(p.assignedToDoctorAt) THEN "admission"
       ELSE IF ~hasStudies THEN "waiting_doctor"
       ELSE IF hasStudiesPending \/ hasStudiesInProgress THEN "in_studies"
       ELSE IF allStudiesCompleted /\ ~Present(p.allStudiesCompletedAt) THEN "results_ready"
       ELSE "undefined"

\* getPatientStage with the doctor-assignment test made before the discharge
\* test.
getPatientStageAdmissionFirst(p) ==
  LET hasStudies == Len(p.studies) > 0
      allStudiesCompleted ==
        hasStudies /\ \A i \in DOMAIN p.studies : p.studies[i].status = "Completado"
      hasStudiesInProgress ==
        hasStudies /\ \E i \in DOMAIN p.studies : p.studies[i].status = "Pendiente Resultado"
      hasStudiesPending ==
        hasStudies /\ \E i \in DOMAIN p.studies : p.studies[i].status = "Solicitado"
  IN IF ~Present(p.assignedToDoctorAt) THEN "admission"
     ELSE IF p.status = "discharged" THEN "discharge"
     ELSE IF ~hasStudies THEN "waiting_doctor"
     ELSE IF hasStudiesPending \/ hasStudiesInProgress THEN "in_studies"
     ELSE IF allStudiesCompleted /\ ~Present(p.allStudiesCompletedAt) THEN "results_ready"
     ELSE IF allStudiesCompleted /\ Present(p.allStudiesCompletedAt) THEN "in_progress"
     ELSE "waiting_doctor"

\* getPatientStage with the in_studies test reading only the requested
\* studies.
getPatientStagePendingOnly(p) ==
  IF p.status = "discharged" THEN "discharge"
  ELSE
    LET hasStudies == Len(p.studies) > 0
        allStudiesCompleted ==
          hasStudies /\ \A i \in DOMAIN p.studies : p.studies[i].status = "Completado"
        hasStudiesPending ==
          hasStudies /\ \E i \in DOMAIN p.studies : p.studies[i].status = "Solicitado"
    IN IF ~Present(p.assignedToDoctorAt) THEN "admission"
       ELSE IF ~hasStudies THEN "waiting_doctor"
       ELSE IF hasStudiesPending THEN "in_studies"
       ELSE IF allStudiesCompleted /\ ~Present(p.allStudiesCompletedAt) THEN "results_ready"
       ELSE IF allStudiesCompleted /\ Present(p.allStudiesCompletedAt) THEN "in_progress"
       ELSE "waiting_doctor"

getPatientStage(p) ==
  IF p.status = "discharged" THEN "discharge"
  ELSE
    LET hasStudies == Len(p.studies) > 0
        allStudiesCompleted ==
          hasStudies /\ \A i \in DOMAIN p.studies : p.studies[i].status = "Completado"
        hasStudiesInProgress ==
          hasStudies /\ \E i \in DOMAIN p.studies : p.studies[i].status = "Pendiente Resultado"
        hasStudiesPending ==
          hasStudies /\ \E i \in DOMAIN p.studies : p.studies[i].status = "Solicitado"
    IN IF ~Present(p.assignedToDoctorAt) THEN "admission"
       ELSE IF ~hasStudies THEN "waiting_doctor"
       ELSE IF hasStudiesPending \/ hasStudiesInProgress THEN "in_studies"
       ELSE IF allStudiesCompleted /\ ~Present(p.allStudiesCompletedAt) THEN "results_ready"
       ELSE IF allStudiesCompleted /\ Present(p.allStudiesCompletedAt) THEN "in_progress"
       ELSE "waiting_doctor"

(***************************************************************************)
(* Grouping of the board.                                                  *)
(***************************************************************************)
EmptyGroups == [s \in KanbanStage |-> <<>>]

\* The forEach body with unshift in place of push.
pushPatientFront(g, p) ==
  [g EXCEPT ![getPatientStage(p)] = <<p>> \o @]

\* The forEach body of patientsByStage (lines 150-153).
pushPatient(g, p) ==
  [g EXCEPT ![getPatientStage(p)] = Append(@, p)]

RECURSIVE groupFrom(_, _)
groupFrom(g, ps) ==
  IF ps = <<>> THEN g ELSE groupFrom(pushPatient(g, Head(ps)), Tail(ps))

patientsByStage(ps) == groupFrom(EmptyGroups, ps)

(***************************************************************************)
(* Sorting.  Array.prototype.sort is stable; with the comparator           *)
(* key(a) - key(b) it is a stable ascending sort on the key.               *)
(***************************************************************************)
RECURSIVE InsertPair(_, _)
InsertPair(x, sorted) ==
  IF sorted = <<>> THEN <<x>>
  ELSE IF Head(sorted).key <= x.key
       THEN <<Head(sorted)>> \o InsertPair(x, Tail(sorted))
       ELSE <<x>> \o sorted

RECURSIVE SortPairsFrom(_, _)
SortPairsFrom(sorted, rest) ==
  IF rest = <<>> THEN sorted
  ELSE SortPairsFrom(InsertPair(Head(rest), sorted), Tail(rest))

\* The values of a sequence of [key, val] pairs, in ascending key order, pairs
\* of equal key in their order in the sequence.
StableSort(pairs) ==
  LET sorted == SortPairsFrom(<<>>, pairs)
  IN [i \in DOMAIN sorted |-> sorted[i].val]

\* Lines 525-527: a sorted copy of the studies, by requestedAt.
sortByRequestedAt(studies) ==
  StableSort([i \in DOMAIN studies |-> [key |-> studies[i].requestedAt, val |-> studies[i]]])

(***************************************************************************)
(* Timeline reconstruction.                                                *)
(***************************************************************************)
calculateDuration(from, to) == (to - from) \div MsPerMinute

\* The running state of generatePatientTimeline: the events pushed so far
\* and previousTimestamp.
pushEvent(st, entityId, kind, type, ts) ==
  [events |-> Append(st.events,
                     [id |-> entityId \o "-" \o kind, timestamp |-> ts, type |-> type,
                      duration |-> calculateDuration(st.prev, ts)]),
   prev |-> ts]

pushIfPresent(st, entityId, kind, type, ts) ==
  IF Present(ts) THEN pushEvent(st, entityId, kind, type, ts) ELSE st

\* The per-study block with the cursor left alone after the completed event.
studyEventsStaleCursor(st, study) ==
  LET a == pushIfPresent(st, study.id, "in-progress", "study_in_progress", study.inProgressAt)
      b == pushIfPresent(a, study.id, "completed", "study_completed", study.completedAt)
      c == pushIfPresent([b EXCEPT !.prev = a.prev], study.id, "reviewed", "study_reviewed",
                         study.reviewedAt)
  IN c

\* Lines 529-573: the events of one study.
studyEvents(st, study) ==
  LET a == pushIfPresent(st, study.id, "in-progress", "study_in_progress", study.inProgressAt)
      b == pushIfPresent(a, study.id, "completed", "study_completed", study.completedAt)
      c == pushIfPresent(b, study.id, "reviewed", "study_reviewed", study.reviewedAt)
  IN c

RECURSIVE allStudyEvents(_, _)
allStudyEvents(st, sortedStudies) ==
  IF sortedStudies = <<>> THEN st
  ELSE allStudyEvents(studyEvents(st, Head(sortedStudies)), Tail(sortedStudies))

\* Lines 483-600: the events array as pushed, before the final sort.
emitEvents(p, studies) ==
  LET s1 == [events |-> <<[id |-> p.id \o "-admission", timestamp |-> p.admissionTime,
                           type |-> "admission", duration |-> 0]>>,
             prev |-> p.admissionTime]
      s2 == pushIfPresent(s1, p.id, "doctor-assigned", "doctor_assigned", p.assignedToDoctorAt)
      s3 == pushIfPresent(s2, p.id, "first-study", "study_requested", p.firstStudyRequestedAt)
      s4 == allStudyEvents(s3, sortByRequestedAt(studies))
      s5 == pushIfPresent(s4, p.id, "all-completed", "all_completed", p.allStudiesCompletedAt)
      s6 == pushIfPresent(s5, p.id, "discharge", "discharge", p.dischargedAt)
  IN s6.events

\* The return statement without the sort.
returnUnsorted(events) == events

\* A sort that places an event before the events of equal timestamp.
RECURSIVE InsertBeforeEqual(_, _)
InsertBeforeEqual(x, sorted) ==
  IF sorted = <<>> THEN <<x>>
  ELSE IF Head(sorted).timestamp < x.timestamp
       THEN <<Head(sorted)>> \o InsertBeforeEqual(x, Tail(sorted))
       ELSE <<x>> \o sorted

RECURSIVE SortTiesReversedFrom(_, _)
SortTiesReversedFrom(sorted, rest) ==
  IF rest = <<>> THEN sorted
  ELSE SortTiesReversedFrom(InsertBeforeEqual(Head(rest), sorted), Tail(rest))

sortTiesReversed(events) == SortTiesReversedFrom(<<>>, events)

\* Line 603: events.sort by timestamp, ascending.
sortByTimestamp(events) ==
  StableSort([i \in DOMAIN events |-> [key |-> events[i].timestamp, val |-> events[i]]])

generatePatientTimeline(p, studies) == sortByTimestamp(emitEvents(p, studies))

(***************************************************************************)
(* Time statistics.                                                        *)
(***************************************************************************)
\* Line 618.
totalTime(p, nowMs) ==
  LET dischargeTime == IF Present(p.dischargedAt) THEN p.dischargedAt ELSE nowMs
  IN (dischargeTime - p.admissionTime) \div MsPerMinute

\* Lines 621-626 with the division made once, on the summed milliseconds.
waitingForStudiesFloorLast(studies, nowMs) ==
  SumSeq([i \in DOMAIN studies |->
            (IF Present(studies[i].completedAt) THEN studies[i].completedAt ELSE nowMs)
            - studies[i].requestedAt]) \div MsPerMinute

\* Lines 621-626.
waitingForStudies(studies, nowMs) ==
  SumSeq([i \in DOMAIN studies |->
            LET completedAt ==
                  IF Present(studies[i].completedAt) THEN studies[i].completedAt ELSE nowMs
            IN (completedAt - studies[i].requestedAt) \div MsPerMinute])

\* Lines 629-639.
waitingForReview(studies, nowMs) ==
  SumSeq([i \in DOMAIN studies |->
            IF Present(studies[i].completedAt) /\ ~Present(studies[i].reviewedAt)
            THEN (nowMs - studies[i].completedAt) \div MsPerMinute
            ELSE IF Present(studies[i].completedAt) /\ Present(studies[i].reviewedAt)
            THEN (studies[i].reviewedAt - studies[i].completedAt) \div MsPerMinute
            ELSE 0])

\* Lines 642-649 with the operands of the subtraction exchanged.
studiesInProgressSwapped(studies) ==
  SumSeq([i \in DOMAIN studies |->
            IF Present(studies[i].inProgressAt) /\ Present(studies[i].completedAt)
            THEN (studies[i].inProgressAt - studies[i].completedAt) \div MsPerMinute
            ELSE 0])

\* Lines 642-649.
studiesInProgress(studies) ==
  SumSeq([i \in DOMAIN studies |->
            IF Present(studies[i].inProgressAt) /\ Present(studies[i].completedAt)
            THEN (studies[i].completedAt - studies[i].inProgressAt) \div MsPerMinute
            ELSE 0])

\* Line 652.
completedStudies(studies) ==
  Cardinality({i \in DOMAIN studies : Present(studies[i].completedAt)})

\* Line 653 dividing by the number of studies.
averageStudyTimeOverAll(studies, nowMs) ==
  IF Len(studies) > 0
  THEN waitingForStudies(studies, nowMs) \div Len(studies)
  ELSE 0

\* Line 653.
averageStudyTime(studies, nowMs) ==
  IF completedStudies(studies) > 0
  THEN waitingForStudies(studies, nowMs) \div completedStudies(studies)
  ELSE 0

\* Lines 609-662, with the clock read of line 613 as nowMs.
calculatePatientTimeStats(p, studies, nowMs) ==
  [totalTime |-> totalTime(p, nowMs),
   waitingForStudies |-> waitingForStudies(studies, nowMs),
   waitingForReview |-> waitingForReview(studies, nowMs),
   studiesInProgress |-> studiesInProgress(studies),
   averageStudyTime |-> averageStudyTime(studies, nowMs)]

(***************************************************************************)
(* Inputs.                                                                 *)
(***************************************************************************)
TimeSet == {k * Step : k \in 0..MaxTick}
OptTime == TimeSet \cup {Absent}

\* The studies of a list get the ids s1, s2, ... in list order.
WithIds(list) == [i \in DOMAIN list |-> [list[i] EXCEPT !.id = "s" \o ToString(i)]]

\* Studies told apart by status only (all the classifier reads).
StatusStudies ==
  [id : {"s"}, status : StudyStatus, requestedAt : {0}, inProgressAt : {Absent},
   completedAt : {Absent}, reviewedAt : {Absent}]

StagePatients ==
  {[id |-> "p1", status |-> st, admissionTime |-> 0, assignedToDoctorAt |-> a,
    firstStudyRequestedAt |-> Absent, allStudiesCompletedAt |-> c,
    dischargedAt |-> Absent, studies |-> WithIds(l)] :
     st \in PatientStatus, a \in {Absent, Step}, c \in {Absent, Step},
     l \in SeqUpTo(StatusStudies, MaxStudies)}

\* The optional timestamps of a patient with n studies: <<0, f>> is field f
\* of the patient, <<i, f>> is field f of study i.
PatientSlots ==
  {<<0, f>> : f \in {"assignedToDoctorAt", "firstStudyRequestedAt",
                     "allStudiesCompletedAt", "dischargedAt"}}

StudySlots(n) ==
  {<<i, f>> : i \in 1..n, f \in {"inProgressAt", "completedAt", "reviewedAt"}}

\* The sets of at most MaxRecorded slots among S.
Recorded(S) == {R \in SUBSET S : Cardinality(R) <= MaxRecorded}

StatusFromTimes(inProgressAt, completedAt) ==
  IF Present(completedAt) THEN "Completado"
  ELSE IF Present(inProgressAt) THEN "Pendiente Resultado"
  ELSE "Solicitado"

\* The patient admitted at adm with n studies requested at req[1..n], whose
\* optional timestamps are those of at (a function on a set of slots).
BuildPatient(n, adm, req, at) ==
  LET At(slot) == IF slot \in DOMAIN at THEN at[slot] ELSE Absent
  IN [id |-> "p1", status |-> "active", admissionTime |-> adm,
      assignedToDoctorAt |-> At(<<0, "assignedToDoctorAt">>),
      firstStudyRequestedAt |-> At(<<0, "firstStudyRequestedAt">>),
      allStudiesCompletedAt |-> At(<<0, "allStudiesCompletedAt">>),
      dischargedAt |-> At(<<0, "dischargedAt">>),
      studies |-> [i \in 1..n |->
                     [id |-> "s" \o ToString(i),
                      status |-> StatusFromTimes(At(<<i, "inProgressAt">>),
                                                 At(<<i, "completedAt">>)),
                      requestedAt |-> req[i],
                      inProgressAt |-> At(<<i, "inProgressAt">>),
                      completedAt |-> At(<<i, "completedAt">>),
                      reviewedAt |-> At(<<i, "reviewedAt">>)]]]

\* p is a patient with at most MaxStudies studies, timestamps in TimeSet and
\* at most MaxRecorded optional timestamps, among patientSlots and those of its studies.
PatientOver(p, patientSlots) ==
  \E n \in 0..MaxStudies :
    \E R \in Recorded(patientSlots \cup StudySlots(n)) :
      \E adm \in TimeSet, req \in [1..n -> TimeSet], at \in [R -> TimeSet] :
        p = BuildPatient(n, adm, req, at)

\* The scenario of the specification: admitted at T0, doctor at +10 min, one
\* study requested at +20, in progress at +25, completed at +40, reviewed
\* at +45, all studies completed at +40.
ScenarioPatient ==
  [id |-> "p1", status |-> "active", admissionTime |-> 0,
   assignedToDoctorAt |-> 10 * MsPerMinute,
   firstStudyRequestedAt |-> 20 * MsPerMinute,
   allStudiesCompletedAt |-> 40 * MsPerMinute,
   dischargedAt |-> Absent,
   studies |-> <<[id |-> "s1", status |-> "Completado",
                  requestedAt |-> 20 * MsPerMinute, inProgressAt |-> 25 * MsPerMinute,
                  completedAt |-> 40 * MsPerMinute, reviewedAt |-> 45 * MsPerMinute]>>]

ScenarioNow == 60 * MsPerMinute

IdlePatient ==
  [id |-> "p1", status |-> "active", admissionTime |-> 0, assignedToDoctorAt |-> Absent,
   firstStudyRequestedAt |-> Absent, allStudiesCompletedAt |-> Absent,
   dischargedAt |-> Absent, studies |-> <<>>]

IdleStats ==
  [totalTime |-> 0, waitingForStudies |-> 0, waitingForReview |-> 0,
   studiesInProgress |-> 0, averageStudyTime |-> 0]

PageIdle ==
  /\ patients = <<>>
  /\ grouped = EmptyGroups
  /\ loading = TRUE
  /\ inflight = {}
  /\ issued = 0
  /\ logged = 0
  /\ clock = 0
  /\ shown = 0
  /\ lastResult = "none"

FnIdle ==
  /\ patient = IdlePatient
  /\ now = 0
  /\ stage = "none"
  /\ timeInStage = 0
  /\ emitted = <<>>
  /\ timeline = <<>>
  /\ stats = IdleStats
  /\ pc = "input"

(***************************************************************************)
(* The timeline of one patient, as PatientTimeline asks for it (line 468:  *)
(* the studies passed are the patient's own).                              *)
(***************************************************************************)
InitTimeline ==
  /\ PageIdle
  /\ \/ PatientOver(patient, PatientSlots)
     \/ patient = ScenarioPatient
  /\ now = 0
  /\ stage = "none"
  /\ timeInStage = 0
  /\ emitted = <<>>
  /\ timeline = <<>>
  /\ stats = IdleStats
  /\ pc = "input"

GenerateTimeline ==
  /\ pc = "input"
  /\ emitted' = emitEvents(patient, patient.studies)
  /\ timeline' = generatePatientTimeline(patient, patient.studies)
  /\ pc' = "done"
  /\ UNCHANGED <<patient, now, stage, timeInStage, stats>>
  /\ UNCHANGED pageVars

NextTimeline == GenerateTimeline

SpecTimeline == InitTimeline /\ [][NextTimeline]_vars

(***************************************************************************)
(* Properties of the timeline.                                             *)
(***************************************************************************)
AdmissionEvent(p) ==
  [id |-> p.id \o "-admission", timestamp |-> p.admissionTime, type |-> "admission",
   duration |-> 0]

EventsAt(events, t) == SelectSeq(events, LAMBDA e : e.timestamp = t)

EventTimes(events) == {events[i].timestamp : i \in DOMAIN events}

\* C4: the returned timeline is non-decreasing in timestamp, and the events
\* of one timestamp appear in it in the order in which they were emitted.
C4_TimelineSorted ==
  pc = "done" =>
    /\ \A i \in 1..(Len(timeline) - 1) : timeline[i].timestamp <= timeline[i + 1].timestamp
    /\ Len(timeline) = Len(emitted)
    /\ \A t \in EventTimes(emitted) : EventsAt(timeline, t) = EventsAt(emitted, t)

\* Two studies whose events were emitted out of chronological order, with
\* two events of equal timestamp in the result.
C4_Witness ==
  /\ pc = "done"
  /\ Len(patient.studies) >= 2
  /\ timeline # emitted
  /\ \E i \in 1..(Len(timeline) - 1) :
       /\ timeline[i].timestamp = timeline[i + 1].timestamp
       /\ timeline[i].type # "admission"
       /\ timeline[i + 1].type # "admission"

\* C5 as claimed: the first element returned is the admission event, with
\* timestamp admissionTime and duration 0, for any patient.
C5_AdmissionAlwaysFirst ==
  pc = "done" => timeline[1] = AdmissionEvent(patient)

\* C5 as amended: the admission event, with timestamp admissionTime and
\* duration 0, is the first event emitted and occurs once in the result; it is
\* the first element returned exactly when no emitted event has a timestamp
\* earlier than admissionTime.
C5_AdmissionFirstUnlessEarlier ==
  pc = "done" =>
    /\ emitted[1] = AdmissionEvent(patient)
    /\ Cardinality({i \in DOMAIN timeline : timeline[i].type = "admission"}) = 1
    /\ \E i \in DOMAIN timeline : timeline[i] = AdmissionEvent(patient)
    /\ (timeline[1] = AdmissionEvent(patient))
         <=> (\A i \in DOMAIN emitted : emitted[i].timestamp >= patient.admissionTime)

\* A doctor assignment stamped with the admission time: the admission event
\* still comes first.
C5_Witness ==
  /\ pc = "done"
  /\ patient.assignedToDoctorAt = patient.admissionTime
  /\ Len(timeline) >= 2
  /\ timeline[1] = AdmissionEvent(patient)
  /\ timeline[2].timestamp = patient.admissionTime

\* The checkpoints of the template with their place in it: the phase, then
\* for a study its requestedAt, its index in the list and the sub-event.
Checkpoints(p) ==
  {[id |-> p.id \o "-admission", timestamp |-> p.admissionTime, type |-> "admission",
    rank |-> <<1, 0, 0, 0>>],
   [id |-> p.id \o "-doctor-assigned", timestamp |-> p.assignedToDoctorAt,
    type |-> "doctor_assigned", rank |-> <<2, 0, 0, 0>>],
   [id |-> p.id \o "-first-study", timestamp |-> p.firstStudyRequestedAt,
    type |-> "study_requested", rank |-> <<3, 0, 0, 0>>],
   [id |-> p.id \o "-all-completed", timestamp |-> p.allStudiesCompletedAt,
    type |-> "all_completed", rank |-> <<5, 0, 0, 0>>],
   [id |-> p.id \o "-discharge", timestamp |-> p.dischargedAt, type |-> "discharge",
    rank |-> <<6, 0, 0, 0>>]}
  \cup {[id |-> p.studies[i].id \o "-in-progress", timestamp |-> p.studies[i].inProgressAt,
         type |-> "study_in_progress", rank |-> <<4, p.studies[i].requestedAt, i, 1>>] :
          i \in DOMAIN p.studies}
  \cup {[id |-> p.studies[i].id \o "-completed", timestamp |-> p.studies[i].completedAt,
         type |-> "study_completed", rank |-> <<4, p.studies[i].requestedAt, i, 2>>] :
          i \in DOMAIN p.studies}
  \cup {[id |-> p.studies[i].id \o "-reviewed", timestamp |-> p.studies[i].reviewedAt,
         type |-> "study_reviewed", rank |-> <<4, p.studies[i].requestedAt, i, 3>>] :
          i \in DOMAIN p.studies}

PresentCheckpoints(p) == {c \in Checkpoints(p) : Present(c.timestamp)}

\* Lexicographic order on the ranks.
RankLess(a, b) ==
  \E k \in 1..4 : a[k] < b[k] /\ \A j \in 1..(k - 1) : a[j] = b[j]

IsEventOf(e, c) == e.id = c.id /\ e.timestamp = c.timestamp /\ e.type = c.type

\* C6: one event per present checkpoint and none for an absent one, emitted
\* in template order (studies by ascending requestedAt); the duration of every
\* event after the first is the whole minutes from the timestamp of the event
\* emitted just before it; the result holds the same events, durations
\* included, as were emitted.
C6_EmissionAndDurations ==
  pc = "done" =>
    /\ Len(emitted) = Cardinality(PresentCheckpoints(patient))
    /\ \A i \in DOMAIN emitted :
         \E c \in PresentCheckpoints(patient) : IsEventOf(emitted[i], c)
    /\ \A i \in 1..(Len(emitted) - 1) :
         \E c \in PresentCheckpoints(patient) :
           /\ IsEventOf(emitted[i], c)
           /\ \E d \in PresentCheckpoints(patient) :
                IsEventOf(emitted[i + 1], d) /\ RankLess(c.rank, d.rank)
    /\ emitted[1].duration = 0
    /\ \A i \in 2..Len(emitted) :
         emitted[i].duration =
           (emitted[i].timestamp - emitted[i - 1].timestamp) \div MsPerMinute
    /\ Len(timeline) = Len(emitted)
    /\ {timeline[i] : i \in DOMAIN timeline} = {emitted[i] : i \in DOMAIN emitted}

\* Two studies listed against their request order, each with one checkpoint:
\* the second study's event is emitted first, the first study's duration is
\* measured from it, and the sort then moves the events.
C6_Witness ==
  /\ pc = "done"
  /\ Len(patient.studies) = 2
  /\ patient.studies[1].requestedAt > patient.studies[2].requestedAt
  /\ Len(emitted) = 3
  /\ emitted[2].id = "s2-completed"
  /\ emitted[3].id = "s1-reviewed"
  /\ emitted[3].duration # 0
  /\ timeline # emitted

(***************************************************************************)
(* The statistics of one patient, as PatientTimeline asks for them.        *)
(***************************************************************************)
\* The statistics read one optional timestamp of the patient.
StatsSlots == {<<0, "dischargedAt">>}

\* One study requested at T0 and completed thirty minutes later.
HalfHourPatient ==
  [id |-> "p1", status |-> "active", admissionTime |-> 0,
   assignedToDoctorAt |-> Absent, firstStudyRequestedAt |-> Absent,
   allStudiesCompletedAt |-> Absent, dischargedAt |-> Absent,
   studies |-> <<[id |-> "s1", status |-> "Completado",
                  requestedAt |-> 0, inProgressAt |-> Absent,
                  completedAt |-> 30 * MsPerMinute, reviewedAt |-> Absent]>>]

InitStats ==
  /\ PageIdle
  /\ \/ PatientOver(patient, StatsSlots) /\ now \in TimeSet
     \/ patient \in {ScenarioPatient, HalfHourPatient} /\ now = ScenarioNow
  /\ stage = "none"
  /\ timeInStage = 0
  /\ emitted = <<>>
  /\ timeline = <<>>
  /\ stats = IdleStats
  /\ pc = "input"

CalculateStats ==
  /\ pc = "input"
  /\ stats' = calculatePatientTimeStats(patient, patient.studies, now)
  /\ pc' = "done"
  /\ UNCHANGED <<patient, now, stage, timeInStage, emitted, timeline>>
  /\ UNCHANGED pageVars

NextStats == CalculateStats

SpecStats == InitStats /\ [][NextStats]_vars

\* Whole minutes from a to b.
Minutes(a, b) == (b - a) \div MsPerMinute

OrElse(t, other) == IF Present(t) THEN t ELSE other

\* The sum of the values of a function with a finite domain.
RECURSIVE SumFn(_)
SumFn(f) ==
  IF DOMAIN f = {} THEN 0
  ELSE LET x == CHOOSE x \in DOMAIN f : TRUE
       IN f[x] + SumFn([y \in DOMAIN f \ {x} |-> f[y]])

Completed(studies) == {i \in DOMAIN studies : Present(studies[i].completedAt)}

ExpectedWaitingForStudies(studies, nowMs) ==
  SumFn([i \in DOMAIN studies |->
           Minutes(studies[i].requestedAt, OrElse(studies[i].completedAt, nowMs))])

\* C7: totalTime runs from admission to discharge or now; waitingForStudies
\* sums, over all studies, request to completion or now; waitingForReview
\* sums, over the completed studies, completion to review or now;
\* studiesInProgress sums, over the studies with both timestamps, in-progress
\* to completion; each term is floored to minutes on its own.
C7_StatsComponents ==
  pc = "done" =>
    LET S == patient.studies
    IN /\ stats.totalTime = Minutes(patient.admissionTime, OrElse(patient.dischargedAt, now))
       /\ stats.waitingForStudies = ExpectedWaitingForStudies(S, now)
       /\ stats.waitingForReview =
            SumFn([i \in Completed(S) |->
                     Minutes(S[i].completedAt, OrElse(S[i].reviewedAt, now))])
       /\ stats.studiesInProgress =
            SumFn([i \in {j \in Completed(S) : Present(S[j].inProgressAt)} |->
                     Minutes(S[i].inProgressAt, S[i].completedAt)])

\* The scenario of the specification at now = 11:00 gives 20, 5 and 15.
C7_Witness ==
  /\ pc = "done"
  /\ patient = ScenarioPatient
  /\ now = ScenarioNow
  /\ stats.totalTime = 60
  /\ stats.waitingForStudies = 20
  /\ stats.waitingForReview = 5
  /\ stats.studiesInProgress = 15

\* C8: averageStudyTime is waitingForStudies (all studies, the unfinished
\* ones included) divided by the number of completed studies and floored, and
\* 0 when no study is completed; the half-hour study gives 30.
C8_AverageStudyTime ==
  pc = "done" =>
    LET S == patient.studies
        n == Cardinality(Completed(S))
    IN /\ stats.averageStudyTime =
            (IF n = 0 THEN 0 ELSE ExpectedWaitingForStudies(S, now) \div n)
       /\ patient = HalfHourPatient => stats.averageStudyTime = 30

C8_Witness ==
  /\ pc = "done"
  /\ patient = HalfHourPatient
  /\ stats.averageStudyTime = 30

Ordered(a, b) == (Present(a) /\ Present(b)) => a <= b

\* The timestamps of p follow the lifecycle, and nowMs is not earlier than
\* any of them.
WellFormed(p, nowMs) ==
  /\ Ordered(p.admissionTime, p.dischargedAt)
  /\ p.admissionTime <= nowMs
  /\ Present(p.dischargedAt) => p.dischargedAt <= nowMs
  /\ \A i \in DOMAIN p.studies :
       LET s == p.studies[i]
       IN /\ Ordered(s.requestedAt, s.inProgressAt)
          /\ Ordered(s.requestedAt, s.completedAt)
          /\ Ordered(s.requestedAt, s.reviewedAt)
          /\ Ordered(s.inProgressAt, s.completedAt)
          /\ Ordered(s.inProgressAt, s.reviewedAt)
          /\ Ordered(s.completedAt, s.reviewedAt)
          /\ \A t \in {s.requestedAt, s.inProgressAt, s.completedAt, s.reviewedAt} :
               Present(t) => t <= nowMs

\* C9: on well-formed input the four totals are not negative.
C9_StatsNonNegative ==
  (pc = "done" /\ WellFormed(patient, now)) =>
    /\ stats.totalTime >= 0
    /\ stats.waitingForStudies >= 0
    /\ stats.waitingForReview >= 0
    /\ stats.studiesInProgress >= 0

C9_Witness ==
  /\ pc = "done"
  /\ WellFormed(patient, now)
  /\ Len(patient.studies) >= 2
  /\ stats.totalTime > 0
  /\ stats.waitingForStudies > 0
  /\ stats.studiesInProgress > 0

(***************************************************************************)
(* The classifier on one patient.                                          *)
(***************************************************************************)
InitStage ==
  /\ PageIdle
  /\ patient \in StagePatients
  /\ now = 0
  /\ stage = "none"
  /\ timeInStage = 0
  /\ emitted = <<>>
  /\ timeline = <<>>
  /\ stats = IdleStats
  /\ pc = "input"

ClassifyStage ==
  /\ pc = "input"
  /\ stage' = getPatientStage(patient)
  /\ pc' = "done"
  /\ UNCHANGED <<patient, now, timeInStage, emitted, timeline, stats>>
  /\ UNCHANGED pageVars

NextStage == ClassifyStage

SpecStage == InitStage /\ [][NextStage]_vars

\* C1: the classifier returns one of the six stages for every patient.
C1_StageTotal ==
  pc = "done" => stage \in KanbanStage

\* An active patient with no optional timestamp and no study.
C1_Witness ==
  /\ pc = "done"
  /\ patient.status = "active"
  /\ ~Present(patient.assignedToDoctorAt)
  /\ ~Present(patient.allStudiesCompletedAt)
  /\ patient.studies = <<>>
  /\ stage = "admission"

AnyStudy(p, st) == \E i \in DOMAIN p.studies : p.studies[i].status = st
AllCompleted(p) == \A i \in DOMAIN p.studies : p.studies[i].status = "Completado"

\* C2: the classifier follows the decision table, the first matching row
\* deciding.
C2_DecisionTable ==
  pc = "done" =>
    LET p == patient
        row1 == p.status = "discharged"
        row2 == ~Present(p.assignedToDoctorAt)
        row3 == p.studies = <<>>
        row4 == AnyStudy(p, "Solicitado") \/ AnyStudy(p, "Pendiente Resultado")
        row5 == AllCompleted(p) /\ ~Present(p.allStudiesCompletedAt)
        row6 == AllCompleted(p) /\ Present(p.allStudiesCompletedAt)
    IN /\ row1 => stage = "discharge"
       /\ (~row1 /\ row2) => stage = "admission"
       /\ (~row1 /\ ~row2 /\ row3) => stage = "waiting_doctor"
       /\ (~row1 /\ ~row2 /\ ~row3 /\ row4) => stage = "in_studies"
       /\ (~row1 /\ ~row2 /\ ~row3 /\ ~row4 /\ row5) => stage = "results_ready"
       /\ (~row1 /\ ~row2 /\ ~row3 /\ ~row4 /\ ~row5 /\ row6) => stage = "in_progress"

\* A discharged patient without a doctor and with a pending study: the first
\* row decides.
C2_Witness ==
  /\ pc = "done"
  /\ patient.status = "discharged"
  /\ ~Present(patient.assignedToDoctorAt)
  /\ AnyStudy(patient, "Solicitado")
  /\ stage = "discharge"

(***************************************************************************)
(* The grouping on one list of patients.                                   *)
(***************************************************************************)
\* The patients of the lists: every status and timestamp combination, with
\* at most one study.
GroupPatients == {p \in StagePatients : Len(p.studies) <= 1}

InitGroup ==
  /\ patients \in SeqUpTo(GroupPatients, MaxPatients)
  /\ grouped = EmptyGroups
  /\ loading = TRUE
  /\ inflight = {}
  /\ issued = 0
  /\ logged = 0
  /\ clock = 0
  /\ shown = 0
  /\ lastResult = "none"
  /\ FnIdle

ComputeGroups ==
  /\ pc = "input"
  /\ grouped' = patientsByStage(patients)
  /\ pc' = "done"
  /\ UNCHANGED <<patients, loading, inflight, issued, logged, clock, shown, lastResult>>
  /\ UNCHANGED <<patient, now, stage, timeInStage, emitted, timeline, stats>>

NextGroup == ComputeGroups

SpecGroup == InitGroup /\ [][NextGroup]_vars

\* C3: the result has the six stage keys, and the bucket of a stage is the
\* sub-list of the patients of that stage, in input order and with their
\* multiplicity.
C3_StablePartition ==
  pc = "done" =>
    /\ DOMAIN grouped = KanbanStage
    /\ \A s \in KanbanStage :
         grouped[s] = SelectSeq(patients, LAMBDA p : getPatientStage(p) = s)
    /\ SumFn([s \in KanbanStage |-> Len(grouped[s])]) = Len(patients)

\* Two different patients of one stage: the bucket lists them in input order.
C3_Witness ==
  /\ pc = "done"
  /\ Len(patients) = 2
  /\ patients[1] # patients[2]
  /\ grouped["in_studies"] = patients

(***************************************************************************)
(* The page: the initial load, the polling, and the responses.             *)
(***************************************************************************)
\* The patients the server may list.
BoardPatients ==
  {p \in StagePatients :
     p.status = "active" /\ p.studies = <<>> /\ ~Present(p.allStudiesCompletedAt)}

ServerLists == SeqUpTo(BoardPatients, MaxPatients)

\* The state once the two effects have run: the initial load is in flight
\* and the interval timer is set.
Init ==
  /\ patients = <<>>
  /\ grouped = patientsByStage(<<>>)
  /\ loading = TRUE
  /\ inflight = {[id |-> 1, initial |-> TRUE]}
  /\ issued = 1
  /\ logged = 0
  /\ clock = 0
  /\ shown = 0
  /\ lastResult = "none"
  /\ FnIdle

\* Lines 94-96: the interval fires and calls loadPatients, whatever is still
\* in flight.
Tick ==
  /\ issued < MaxRequests
  /\ clock' = clock + PollIntervalMs
  /\ issued' = issued + 1
  /\ inflight' = inflight \cup {[id |-> issued + 1, initial |-> FALSE]}
  /\ UNCHANGED <<patients, grouped, loading, logged, shown, lastResult>>
  /\ UNCHANGED fnVars

\* The call of request r returns: init (lines 85-88) then clears `loading`.
Settle(r) ==
  /\ inflight' = inflight \ {r}
  /\ loading' = IF r.initial THEN FALSE ELSE loading
  /\ UNCHANGED <<issued, clock>>
  /\ UNCHANGED fnVars

\* Lines 75-77: the body parses to an object with a patients list.
ResponseOk(r, list) ==
  /\ patients' = list
  /\ grouped' = patientsByStage(list)
  /\ shown' = r.id
  /\ lastResult' = "ok"
  /\ UNCHANGED logged
  /\ Settle(r)

\* Lines 75-77: the body parses to an object without patients (an error
\* payload): data.patients || [] is the empty list.
ResponseWithoutPatients(r) ==
  /\ patients' = <<>>
  /\ grouped' = patientsByStage(<<>>)
  /\ shown' = r.id
  /\ lastResult' = "no_list"
  /\ UNCHANGED logged
  /\ Settle(r)

\* Lines 75, 78-80: fetch rejects.
FetchRejected(r) ==
  /\ logged' = logged + 1
  /\ lastResult' = "rejected"
  /\ UNCHANGED <<patients, grouped, shown>>
  /\ Settle(r)

\* Lines 76, 78-80: res.json() rejects.
BodyUnparseable(r) ==
  /\ logged' = logged + 1
  /\ lastResult' = "unparseable"
  /\ UNCHANGED <<patients, grouped, shown>>
  /\ Settle(r)

Next ==
  \/ Tick
  \/ \E r \in inflight, list \in ServerLists : ResponseOk(r, list)
  \/ \E r \in inflight : ResponseWithoutPatients(r)
  \/ \E r \in inflight : FetchRejected(r)
  \/ \E r \in inflight : BodyUnparseable(r)

Spec == Init /\ [][Next]_vars

FailureResults == {"rejected", "unparseable", "no_list"}

\* A step in which a call of loadPatients settles.
Settles == inflight' # inflight /\ issued' = issued

\* C10 as claimed: a request that fails in any way (rejected fetch,
\* unparseable body, error response without a patients list) leaves the list
\* shown unchanged, so that the list is always that of the last successful
\* request, and the timer goes on issuing requests.
C10_FailureKeepsList ==
  /\ [][(Settles /\ lastResult' \in FailureResults) => patients' = patients]_vars
  /\ [](issued < MaxRequests => ENABLED Tick)

(***************************************************************************)
(* Time in the current stage.                                              *)
(***************************************************************************)
\* Math.max over the spread of a non-empty list of numbers.
RECURSIVE MathMax(_)
MathMax(xs) ==
  IF Len(xs) = 1 THEN xs[1]
  ELSE LET m == MathMax(Tail(xs)) IN IF xs[1] >= m THEN xs[1] ELSE m

\* Lines 175-177: new Date(s.completedAt || 0).getTime() of every study.
completedTimes(studies) ==
  [i \in DOMAIN studies |->
     IF Present(studies[i].completedAt) THEN studies[i].completedAt ELSE 0]

\* The results_ready branch measuring from the admission.
getTimeInStageFromAdmission(p, nowMs) ==
  LET st == getPatientStage(p)
  IN IF st \in {"admission", "results_ready"} THEN (nowMs - p.admissionTime) \div MsPerMinute
     ELSE IF st = "waiting_doctor"
     THEN (nowMs - (IF Present(p.assignedToDoctorAt) THEN p.assignedToDoctorAt
                    ELSE p.admissionTime)) \div MsPerMinute
     ELSE IF st = "in_studies"
     THEN (nowMs - (IF Present(p.firstStudyRequestedAt) THEN p.firstStudyRequestedAt
                    ELSE p.admissionTime)) \div MsPerMinute
     ELSE IF st = "in_progress"
     THEN (nowMs - (IF Present(p.allStudiesCompletedAt) THEN p.allStudiesCompletedAt
                    ELSE p.admissionTime)) \div MsPerMinute
     ELSE 0

\* Lines 159-186, with the clock read of line 160 as nowMs.  Math.max of no
\* argument is -Infinity, which makes the result Infinity.
getTimeInStage(p, nowMs) ==
  LET st == getPatientStage(p)
  IN IF st = "admission" THEN (nowMs - p.admissionTime) \div MsPerMinute
     ELSE IF st = "waiting_doctor"
     THEN (nowMs - (IF Present(p.assignedToDoctorAt) THEN p.assignedToDoctorAt
                    ELSE p.admissionTime)) \div MsPerMinute
     ELSE IF st = "in_studies"
     THEN (nowMs - (IF Present(p.firstStudyRequestedAt) THEN p.firstStudyRequestedAt
                    ELSE p.admissionTime)) \div MsPerMinute
     ELSE IF st = "results_ready"
     THEN IF p.studies = <<>> THEN "Infinity"
          ELSE (nowMs - MathMax(completedTimes(p.studies))) \div MsPerMinute
     ELSE IF st = "in_progress"
     THEN (nowMs - (IF Present(p.allStudiesCompletedAt) THEN p.allStudiesCompletedAt
                    ELSE p.admissionTime)) \div MsPerMinute
     ELSE 0

\* The optional timestamps getTimeInStage reads from the patient.
StageSlots ==
  {<<0, f>> : f \in {"assignedToDoctorAt", "firstStudyRequestedAt", "allStudiesCompletedAt"}}

CompletedSlots(n) == {<<i, "completedAt">> : i \in 1..n}

\* p is a patient of either status with at most MaxStudies studies of any
\* status, timestamps in TimeSet and at most MaxRecorded optional timestamps;
\* the status of a study is independent of its completedAt.
StagePatientOver(p) ==
  \E n \in 0..MaxStudies :
    \E R \in Recorded(StageSlots \cup CompletedSlots(n)) :
      \E adm \in TimeSet, req \in [1..n -> {0}], at \in [R -> TimeSet],
         st \in PatientStatus, sts \in [1..n -> StudyStatus] :
        LET q == BuildPatient(n, adm, req, at)
        IN p = [q EXCEPT !.status = st,
                         !.studies = [i \in 1..n |-> [q.studies[i] EXCEPT !.status = sts[i]]]]

InitTimeInStage ==
  /\ PageIdle
  /\ StagePatientOver(patient)
  /\ now \in TimeSet
  /\ stage = "none"
  /\ timeInStage = 0
  /\ emitted = <<>>
  /\ timeline = <<>>
  /\ stats = IdleStats
  /\ pc = "input"

\* One call of getTimeInStage; `stage` is its local of line 161.
ComputeTimeInStage ==
  /\ pc = "input"
  /\ stage' = getPatientStage(patient)
  /\ timeInStage' = getTimeInStage(patient, now)
  /\ pc' = "done"
  /\ UNCHANGED <<patient, now, emitted, timeline, stats>>
  /\ UNCHANGED pageVars

NextTimeInStage == ComputeTimeInStage

SpecTimeInStage == InitTimeInStage /\ [][NextTimeInStage]_vars

\* The largest completedAt of the studies, a missing one counting as 0.
LastCompleted(p) ==
  LET ts == {OrElse(p.studies[i].completedAt, 0) : i \in DOMAIN p.studies}
  IN CHOOSE t \in ts : \A u \in ts : u <= t

\* C11: the result is the whole minutes from the defining timestamp of the
\* patient's stage to now: admissionTime for admission; assignedToDoctorAt,
\* else admissionTime, for waiting_doctor; firstStudyRequestedAt, else
\* admissionTime, for in_studies; the largest completedAt (missing ones as
\* epoch 0) for results_ready; allStudiesCompletedAt, else admissionTime, for
\* in_progress; and it is 0 for discharge.
C11_TimeInStage ==
  pc = "done" =>
    LET p == patient
    IN /\ stage = getPatientStage(p)
       /\ stage = "admission" => timeInStage = Minutes(p.admissionTime, now)
       /\ stage = "waiting_doctor" =>
            timeInStage = Minutes(OrElse(p.assignedToDoctorAt, p.admissionTime), now)
       /\ stage = "in_studies" =>
            timeInStage = Minutes(OrElse(p.firstStudyRequestedAt, p.admissionTime), now)
       /\ stage = "results_ready" => timeInStage = Minutes(LastCompleted(p), now)
       /\ stage = "in_progress" =>
            timeInStage = Minutes(OrElse(p.allStudiesCompletedAt, p.admissionTime), now)
       /\ stage = "discharge" => timeInStage = 0

\* Two completed studies awaiting review, one of them without completedAt:
\* the time runs from the completedAt of the other.
C11_Witness ==
  /\ pc = "done"
  /\ stage = "results_ready"
  /\ Len(patient.studies) = 2
  /\ ~Present(patient.studies[1].completedAt)
  /\ patient.studies[2].completedAt = Step
  /\ patient.admissionTime = 0
  /\ now = Step
  /\ timeInStage = 0

\* C13: results_ready is returned only for a patient with at least one
\* study, so the results_ready branch of getTimeInStage has a study to take
\* the maximum over; and waiting_doctor is returned only for a patient
\* without studies, so the final fallback return is never the one taken.
C13_NoEmptyMaxNoFallback ==
  pc = "done" =>
    /\ stage = "results_ready" => Len(patient.studies) >= 1
    /\ stage = "waiting_doctor" => patient.studies = <<>>

\* A patient awaiting review of its studies, all completed.
C13_Witness ==
  /\ pc = "done"
  /\ stage = "results_ready"
  /\ Len(patient.studies) = MaxStudies
  /\ \A i \in DOMAIN patient.studies : patient.studies[i].status = "Completado"

(***************************************************************************)
(* The ids of the events of a timeline.                                    *)
(***************************************************************************)
\* Ids a study may carry; all differ from the patient's id p1.
StudyIds == {"s1", "s2", "s3", "p1-all"}

DistinctIds(p) ==
  /\ \A i, j \in DOMAIN p.studies : i # j => p.studies[i].id # p.studies[j].id
  /\ \A i \in DOMAIN p.studies : p.studies[i].id # p.id

InitTimelineIds ==
  /\ PageIdle
  /\ \E n \in 0..MaxStudies :
       \E R \in Recorded(PatientSlots \cup StudySlots(n)) :
         \E adm \in TimeSet, at \in [R -> TimeSet], ids \in [1..n -> StudyIds] :
           LET q == BuildPatient(n, adm, [i \in 1..n |-> adm], at)
               p == [q EXCEPT !.studies =
                                [i \in 1..n |-> [q.studies[i] EXCEPT !.id = ids[i]]]]
           IN DistinctIds(p) /\ patient = p
  /\ now = 0
  /\ stage = "none"
  /\ timeInStage = 0
  /\ emitted = <<>>
  /\ timeline = <<>>
  /\ stats = IdleStats
  /\ pc = "input"

SpecTimelineIds == InitTimelineIds /\ [][NextTimeline]_vars

\* C12 as claimed: when the studies have pairwise distinct ids that differ
\* from the patient's id, the ids of the events of the timeline are pairwise
\* distinct.
C12_EventIdsDistinct ==
  (pc = "done" /\ DistinctIds(patient)) =>
    \A i, j \in DOMAIN timeline : i # j => timeline[i].id # timeline[j].id

(***************************************************************************)
(* Overlapping requests.                                                   *)
(***************************************************************************)
\* C14 as claimed: the list shown is never replaced by the response to a
\* request issued earlier than the request whose response is shown.
C14_ShownNeverRegresses ==
  [][shown' >= shown]_vars

====
